---- MODULE Spec2Model ----
(***************************************************************************)
(* Model of opta2.py: the tableau simplex solver simplex_method_manual and *)
(* the affine-scaling interior-point solver method.                        *)
(*                                                                         *)
(* Numbers.  The program computes in IEEE double precision.  The model     *)
(* computes with exact rationals <<numerator, denominator>> in lowest      *)
(* terms with a positive denominator, so every comparison the code makes   *)
(* (> 0, >= 0, == 1, > 1, <= eps, argmin) is decided on the exact value.   *)
(* Rounding is outside the model; the two float values that are not        *)
(* numbers are modelled explicitly: np.inf as Inf (ratio test) and nan as  *)
(* NaN (a NaN iterate of the interior-point loop).                         *)
(*                                                                         *)
(* Indices are 1-based: row num_constraints + 1 is the code's tableau[-1], *)
(* column num_vars + num_constraints + 1 is the code's tableau[:, -1].     *)
(***************************************************************************)
EXTENDS Integers, Sequences, FiniteSets, TLC

VARIABLES
    C,                \* objective coefficients (both solvers)
    A,                \* constraint matrix, a sequence of rows (both solvers)
    b,                \* right-hand side (both solvers)
    tableau,          \* simplex_method_manual: the tableau, <<>> before it is built
    pc,               \* simplex_method_manual: "idle", "start", "loop", "done", "unbounded"
    solution,         \* simplex_method_manual: the printed solution vector, None before
    objective_value,  \* simplex_method_manual: the printed objective value, None before
    last_pivot,       \* history: last_pivot[i] is the column selected by the latest pivot on row i, 0 if none
    entered,          \* history: the set of columns selected as pivot column so far
    npivots,          \* history: the number of pivots performed so far
    x0,               \* method: initial point
    alpha,            \* method: step size
    eps,              \* method: tolerance
    x,                \* method: current iterate; every entry is NaN once it is not a number
    counter,          \* method: the loop counter
    pcM,              \* method: "idle", "start", "iterate" or a terminal status
    x_star,           \* method: the printed solution, None before
    ip_objective      \* method: the printed objective value, None before

vars == <<C, A, b, tableau, pc, solution, objective_value, last_pivot, entered,
          npivots, x0, alpha, eps, x, counter, pcM, x_star, ip_objective>>

simplexVars == <<tableau, pc, solution, objective_value, last_pivot, entered, npivots>>
methodVars == <<x0, alpha, eps, x, counter, pcM, x_star, ip_objective>>

\* no value yet (Python: the variable is not assigned)
None == <<>>
\* the floats np.inf and nan, written as the quotients 1/0 and 0/0
Inf == <<1, 0>>
NaN == <<0, 0>>

----------------------------------------------------------------------------
(* Bounds of the explored inputs. *)

\* entries of A range over -1 .. MaxCoef
MaxCoef == 2
\* entries of C range over -1 .. MaxObj
MaxObj == 1
\* entries of b range over -1 .. MaxRhs
MaxRhs == 1
\* entries of x0 range over 0 .. MaxX0
MaxX0 == 2
\* passes of the loop of method that are explored (the code has no limit)
MaxCounter == 4
\* feasible points with coordinates 0 .. GridMax are compared with the optimum
GridMax == 3
\* the number of pivots within which the pivot loop is left
MaxPivots == 4

----------------------------------------------------------------------------
(* Exact rational arithmetic standing for the float operations. *)

Abs(i) == IF i < 0 THEN -i ELSE i

RECURSIVE GCD(_, _)
GCD(m, n) == IF n = 0 THEN m ELSE GCD(n, m % n)

Rat(n, d) ==
    LET s == IF d < 0 THEN -1 ELSE 1
        g == GCD(Abs(n), Abs(d))
    IN  <<(s * n) \div g, (s * d) \div g>>

Zero == <<0, 1>>
One == <<1, 1>>
RInt(i) == <<i, 1>>

RAdd(p, q) == Rat(p[1] * q[2] + q[1] * p[2], p[2] * q[2])
RNeg(p) == <<-p[1], p[2]>>
RSub(p, q) == RAdd(p, RNeg(q))
RMul(p, q) == Rat(p[1] * q[1], p[2] * q[2])
\* division by a non-zero value (the callers test the divisor first)
RDiv(p, q) == Rat(p[1] * q[2], p[2] * q[1])
RLt(p, q) == p[1] * q[2] < q[1] * p[2]
RLe(p, q) == p[1] * q[2] <= q[1] * p[2]
RAbs(p) == <<Abs(p[1]), p[2]>>

\* An array given entry by entry, with its entries computed once (numpy arrays
\* hold values; a function expression alone would be recomputed at each use).
Array(f) == <<>> \o f

RECURSIVE RSum(_)
RSum(s) == IF s = <<>> THEN Zero ELSE RAdd(s[1], RSum(Tail(s)))

\* dot product of two vectors of the same length
Dot(u, v) == RSum(Array([k \in 1..Len(u) |-> RMul(u[k], v[k])]))

\* matrix @ vector
MatVec(M, v) == Array([i \in 1..Len(M) |-> Dot(M[i], v)])

\* extended order on floats that may be np.inf
ExtLt(p, q) == IF p = Inf THEN FALSE ELSE IF q = Inf THEN TRUE ELSE RLt(p, q)

\* np.argmin: index of the least entry, the first one among equals
ArgMin(s) ==
    CHOOSE i \in 1..Len(s) :
        /\ \A k \in 1..Len(s) : ~ExtLt(s[k], s[i])
        /\ \A k \in 1..(i - 1) : ExtLt(s[i], s[k])

----------------------------------------------------------------------------
(* simplex_method_manual *)

num_vars == Len(C)
num_constraints == Len(b)
LastCol == num_vars + num_constraints + 1
ObjRow == num_constraints + 1

\* the tableau built from the inputs
InitialTableau ==
    [i \in 1..(num_constraints + 1) |->
        [j \in 1..(num_vars + num_constraints + 1) |->
            IF i <= num_constraints
            THEN IF j <= num_vars THEN A[i][j]
                 ELSE IF j <= num_vars + num_constraints
                      THEN (IF j - num_vars = i THEN One ELSE Zero)
                      ELSE b[i]
            ELSE IF j <= num_vars THEN RNeg(C[j]) ELSE Zero]]

\* np.argmin(tableau[-1, :-1])
pivot_col(T) == ArgMin(SubSeq(T[ObjRow], 1, LastCol - 1))

\* tableau[-1, pivot_col] >= 0: the loop is left
IsOptimal(T) == RLe(Zero, T[ObjRow][pivot_col(T)])

\* the ratio list of the ratio test
Ratios(T, c) ==
    [i \in 1..num_constraints |->
        IF RLt(Zero, T[i][c]) THEN RDiv(T[i][LastCol], T[i][c]) ELSE Inf]

\* a ratio test that takes the first row with a finite ratio, not the least ratio
pivot_row_first_finite(T, c) ==
    IF \A i \in 1..num_constraints : Ratios(T, c)[i] = Inf THEN 1
    ELSE CHOOSE i \in 1..num_constraints :
            Ratios(T, c)[i] # Inf /\ \A k \in 1..(i - 1) : Ratios(T, c)[k] = Inf

\* np.argmin(ratios)
pivot_row(T, c) == ArgMin(Ratios(T, c))

\* an unboundedness test that looks at the first ratio only
NoFiniteRatio_first_only(T, c) == Ratios(T, c)[1] = Inf

\* ratios[pivot_row] == np.inf
NoFiniteRatio(T, c) == Ratios(T, c)[pivot_row(T, c)] = Inf

\* a normalization that leaves the right-hand side of the pivot row undivided
NormalizedRow_keeps_rhs(T, r, c) ==
    [j \in 1..LastCol |-> IF j = LastCol THEN T[r][j] ELSE RDiv(T[r][j], T[r][c])]

\* tableau[pivot_row, :] /= pivot_value
NormalizedRow(T, r, c) == [j \in 1..LastCol |-> RDiv(T[r][j], T[r][c])]

\* an elimination loop over range(num_constraints): the objective row is skipped
EliminatedRows_constraints_only(r) == (1..num_constraints) \ {r}

\* the rows the elimination loop updates: range(num_constraints + 1) but pivot_row
EliminatedRows(r) == (1..(num_constraints + 1)) \ {r}

\* the Gauss-Jordan step on pivot element (r, c)
PivotStep(T, r, c) ==
    LET prow == NormalizedRow(T, r, c)
    IN  [i \in 1..(num_constraints + 1) |->
            IF i = r THEN prow
            ELSE IF i \in EliminatedRows(r)
                 THEN [j \in 1..LastCol |-> RSub(T[i][j], RMul(T[i][c], prow[j]))]
                 ELSE T[i]]

\* tableau[:, j]
Column(T, j) == [i \in 1..(num_constraints + 1) |-> T[i][j]]

\* the test the extraction applies to a column
TreatedAsBasic(col) ==
    /\ Cardinality({i \in 1..Len(col) : col[i] = One}) = 1
    /\ Cardinality({i \in 1..Len(col) : RLt(One, col[i])}) = 0

\* np.where(basic_vars == 1)[0][0]
FirstOne(col) == CHOOSE i \in 1..Len(col) :
                    col[i] = One /\ \A k \in 1..(i - 1) : col[k] # One

\* the solution vector read from the final tableau
ExtractSolution(T) ==
    [j \in 1..num_vars |->
        IF TreatedAsBasic(Column(T, j))
        THEN T[FirstOne(Column(T, j))][LastCol]
        ELSE Zero]

----------------------------------------------------------------------------
(* Inputs of simplex_method_manual. *)

Vec(S, n) == [1..n -> S]
Mat(S, m, n) == [1..m -> [1..n -> S]]
Coefs == {RInt(k) : k \in (-1)..MaxCoef}
Objs == {RInt(k) : k \in (-1)..MaxObj}
Rhss == {RInt(k) : k \in (-1)..MaxRhs}
Dims == {1, 2}

\* the end-to-end instance: C=[3,2], A=[[1,0],[0,1],[1,1]], b=[4,4,5]
ExampleC == <<RInt(3), RInt(2)>>
ExampleA == <<<<One, Zero>>, <<Zero, One>>, <<One, One>>>>
ExampleB == <<RInt(4), RInt(4), RInt(5)>>

MethodIdle ==
    /\ x0 = <<>> /\ alpha = Zero /\ eps = Zero /\ x = <<>> /\ counter = 0
    /\ pcM = "idle" /\ x_star = None /\ ip_objective = None

InitSimplex ==
    /\ \/ \E n \in Dims, m \in Dims :
            /\ C \in Vec(Objs, n)
            /\ A \in Mat(Coefs, m, n)
            /\ b \in Vec(Rhss, m)
       \/ C = ExampleC /\ A = ExampleA /\ b = ExampleB
    /\ tableau = <<>> /\ pc = "start" /\ solution = None /\ objective_value = None
    /\ last_pivot = <<>> /\ entered = {} /\ npivots = 0
    /\ MethodIdle

\* lines 70-78: the tableau is built; no input is refused
BuildTableau ==
    /\ pc = "start"
    /\ tableau' = InitialTableau
    /\ last_pivot' = [i \in 1..num_constraints |-> 0]
    /\ pc' = "loop"
    /\ UNCHANGED <<C, A, b, solution, objective_value, entered, npivots>>
    /\ UNCHANGED methodVars

\* one pass of the loop that pivots
Pivot ==
    /\ pc = "loop"
    /\ ~IsOptimal(tableau)
    /\ LET c == pivot_col(tableau)
           r == pivot_row(tableau, c)
       IN  /\ ~NoFiniteRatio(tableau, c)
           /\ tableau' = PivotStep(tableau, r, c)
           /\ last_pivot' = [last_pivot EXCEPT ![r] = c]
           /\ entered' = entered \cup {c}
           /\ npivots' = npivots + 1
    /\ UNCHANGED <<C, A, b, pc, solution, objective_value>>
    /\ UNCHANGED methodVars

\* one pass of the loop that finds no finite ratio: message and return
ReportUnbounded ==
    /\ pc = "loop"
    /\ ~IsOptimal(tableau)
    /\ NoFiniteRatio(tableau, pivot_col(tableau))
    /\ pc' = "unbounded"
    /\ UNCHANGED <<C, A, b, tableau, solution, objective_value, last_pivot, entered, npivots>>
    /\ UNCHANGED methodVars

\* the loop is left by break; the solution is extracted and printed
Extract ==
    /\ pc = "loop"
    /\ IsOptimal(tableau)
    /\ solution' = ExtractSolution(tableau)
    /\ objective_value' = tableau[ObjRow][LastCol]
    /\ pc' = "done"
    /\ UNCHANGED <<C, A, b, tableau, last_pivot, entered, npivots>>
    /\ UNCHANGED methodVars

NextSimplex == BuildTableau \/ Pivot \/ ReportUnbounded \/ Extract

SpecSimplex == InitSimplex /\ [][NextSimplex]_vars

----------------------------------------------------------------------------
(* method: the affine-scaling interior-point solver *)

\* a row scan that also clears the flag on a zero entry
RECURSIVE RowIsNeg_clears_on_zero(_)
RowIsNeg_clears_on_zero(row) ==
    IF row = <<>> THEN TRUE
    ELSE IF RLe(Zero, Head(row)) THEN FALSE
    ELSE RowIsNeg_clears_on_zero(Tail(row))

\* the flag neg after the inner loop over a row: it starts True and is cleared
\* by a value > 0
RECURSIVE RowIsNeg(_)
RowIsNeg(row) ==
    IF row = <<>> THEN TRUE
    ELSE IF RLt(Zero, Head(row)) THEN FALSE
    ELSE RowIsNeg(Tail(row))

\* the flag sol after the outer loop over the rows: it starts True and is
\* cleared by a row whose neg flag is still set
RECURSIVE SolFlag(_)
SolFlag(rows) ==
    IF rows = <<>> THEN TRUE
    ELSE IF RowIsNeg(Head(rows)) THEN FALSE
    ELSE SolFlag(Tail(rows))

\* the loop over the components of bound = A @ x0 returns at the first i with
\* bound[i] > b[i]
RECURSIVE BoundExceeded(_, _)
BoundExceeded(bound, rhs) ==
    IF bound = <<>> THEN FALSE
    ELSE IF RLt(Head(rhs), Head(bound)) THEN TRUE
    ELSE BoundExceeded(Tail(bound), Tail(rhs))

\* the outcome of the checks that precede the loop
Applicability ==
    IF ~SolFlag(A) THEN "NoSolution"
    ELSE IF BoundExceeded(MatVec(A, x0), b) THEN "NotApplicable"
    ELSE "pass"

\* the literal 0.1 of the applicability gate inside the loop
Threshold == <<1, 10>>

\* A @ D with D = np.diag(xv)
A_tilda(xv) ==
    Array([i \in 1..Len(A) |-> Array([j \in 1..Len(xv) |-> RMul(A[i][j], xv[j])])])

\* D @ C
c_tilda(xv) == Array([j \in 1..Len(xv) |-> RMul(xv[j], C[j])])

\* A_tilda @ A_tilda.T
A_rev(xv) ==
    LET At == A_tilda(xv)
    IN  Array([i \in 1..Len(A) |-> Array([l \in 1..Len(A) |-> Dot(At[i], At[l])])])

\* determinant of a 1x1 or 2x2 matrix
Det(G) ==
    IF Len(G) = 1 THEN G[1][1]
    ELSE RSub(RMul(G[1][1], G[2][2]), RMul(G[1][2], G[2][1]))

\* np.linalg.inv raises LinAlgError("Singular matrix") on this matrix
IsSingular(G) == Det(G) = Zero

\* np.linalg.inv of a non-singular 1x1 or 2x2 matrix
Inverse(G) ==
    LET d == Det(G)
    IN  IF Len(G) = 1 THEN << <<RDiv(One, d)>> >>
        ELSE << <<RDiv(G[2][2], d), RDiv(RNeg(G[1][2]), d)>>,
                <<RDiv(RNeg(G[2][1]), d), RDiv(G[1][1], d)>> >>

\* c_p = P @ c_tilda with P = I - A_tilda.T @ inv(A_tilda @ A_tilda.T) @ A_tilda
c_p(xv) ==
    LET At == A_tilda(xv)
        Gi == Inverse(A_rev(xv))
        n == Len(xv)
        m == Len(A)
        mult == Array([p \in 1..n |-> Array([q \in 1..n |->
                    RSum(Array([k \in 1..(m * m) |->
                        LET i == ((k - 1) \div m) + 1
                            l == ((k - 1) % m) + 1
                        IN  RMul(RMul(At[i][p], Gi[i][l]), At[l][q])]))])])
        P == Array([p \in 1..n |-> Array([q \in 1..n |->
                    RSub(IF p = q THEN One ELSE Zero, mult[p][q])])])
    IN  MatVec(P, c_tilda(xv))

\* np.min(c_p)
Minimum(cp) == cp[ArgMin(cp)]

\* D @ (1 + alpha * c_p / v) with v = |minimum| # 0
XStar(xv, cp) ==
    LET v == RAbs(Minimum(cp))
    IN  Array([j \in 1..Len(xv) |->
            RMul(xv[j], RAdd(One, RDiv(RMul(alpha, cp[j]), v)))])

\* the square of np.linalg.norm(x_star - x, ord=2)
NormSq(xs, xv) ==
    RSum(Array([j \in 1..Len(xv) |-> RMul(RSub(xs[j], xv[j]), RSub(xs[j], xv[j]))]))

\* norm <= eps, decided on the squares
WithinEps(xs, xv) == RLe(Zero, eps) /\ RLe(NormSq(xs, xv), RMul(eps, eps))

\* the iterate is nan in every entry
IsNaN(xv) == \A j \in 1..Len(xv) : xv[j] = NaN

\* What one pass of the loop does from a numeric iterate xv: how it ends (kind)
\* and the candidate x_star it computes (xs, None when the pass stops before).
PassResult(xv) ==
    IF IsSingular(A_rev(xv)) THEN [kind |-> "LinAlgError", xs |-> None]
    ELSE LET cp == c_p(xv)
             mn == Minimum(cp)
         IN  IF RLe(Threshold, mn) THEN [kind |-> "NotApplicable", xs |-> None]
             ELSE IF mn = Zero THEN [kind |-> "nan", xs |-> [j \in 1..Len(xv) |-> NaN]]
             ELSE LET xs == XStar(xv, cp)
                  IN  IF WithinEps(xs, xv) THEN [kind |-> "Converged", xs |-> xs]
                      ELSE [kind |-> "continue", xs |-> xs]

----------------------------------------------------------------------------
(* Inputs of method. *)

X0s == {RInt(k) : k \in 0..MaxX0}
PosRhss == {RInt(k) : k \in 1..(MaxRhs + 1)}
\* the two step sizes the driver passes
Alphas == {<<1, 2>>, <<9, 10>>}
Epss == {<<1, 2>>, One}

\* instances named by the specification, and two-constraint instances
MethodExamples ==
    { [C |-> <<One, One>>, A |-> << <<RInt(-1), RInt(-2)>> >>, b |-> <<RInt(4)>>,
       x0 |-> <<One, One>>],
      [C |-> <<RInt(3), RInt(2)>>, A |-> << <<One, Zero>>, <<Zero, One>> >>,
       b |-> <<RInt(4), RInt(4)>>, x0 |-> <<RInt(10), RInt(10)>>],
      [C |-> <<RInt(3), RInt(2)>>, A |-> << <<One, Zero>>, <<Zero, One>> >>,
       b |-> <<RInt(4), RInt(4)>>, x0 |-> <<One, One>>],
      [C |-> <<RInt(3), RInt(2)>>, A |-> << <<One, One>>, <<One, One>> >>,
       b |-> <<RInt(4), RInt(4)>>, x0 |-> <<One, One>>],
      [C |-> <<RInt(3), RInt(2), Zero>>, A |-> << <<One, Zero, One>>, <<Zero, One, Zero>> >>,
       b |-> <<RInt(4), RInt(4)>>, x0 |-> <<One, One, One>>] }

SimplexIdle ==
    /\ tableau = <<>> /\ pc = "idle" /\ solution = None /\ objective_value = None
    /\ last_pivot = <<>> /\ entered = {} /\ npivots = 0

InitMethod ==
    /\ \/ /\ C \in Vec(Objs, 2)
          /\ A \in Mat(Coefs, 1, 2)
          /\ b \in Vec(PosRhss, 1)
          /\ x0 \in Vec(X0s, 2)
       \/ \E e \in MethodExamples : C = e.C /\ A = e.A /\ b = e.b /\ x0 = e.x0
    /\ alpha \in Alphas
    /\ eps \in Epss
    /\ x = <<>> /\ counter = 0 /\ pcM = "start"
    /\ x_star = None /\ ip_objective = None
    /\ SimplexIdle

\* lines 18-37: the two checks, then the loop's initial state
CheckApplicability ==
    /\ pcM = "start"
    /\ IF Applicability = "pass"
       THEN /\ x' = x0
            /\ pcM' = "iterate"
       ELSE /\ x' = x
            /\ pcM' = Applicability
    /\ counter' = counter
    /\ UNCHANGED <<C, A, b, x0, alpha, eps, x_star, ip_objective>>
    /\ UNCHANGED simplexVars

\* One pass of the while loop (lines 39-65).
\*  - np.linalg.inv raises on a singular matrix: the exception leaves method
\*    uncaught ("LinAlgError");
\*  - the gate minimum >= 0.1 prints and returns ("NotApplicableStop");
\*  - minimum = 0: c_p / 0 is nan or inf, D @ x_tilda is nan in every entry,
\*    nan <= eps is False and the loop goes on with a NaN iterate;
\*  - from a NaN iterate: inv of a NaN matrix does not raise, every comparison
\*    with nan is False, the iterate stays NaN;
\*  - the convergence test is met: solution and objective are printed;
\*  - otherwise x = x_star.
Pass ==
    /\ pcM = "iterate"
    /\ counter < MaxCounter
    /\ counter' = counter + 1
    /\ IF IsNaN(x)
       THEN UNCHANGED <<x, pcM, x_star, ip_objective>>
       ELSE LET res == PassResult(x)
            IN  CASE res.kind = "LinAlgError" ->
                        /\ pcM' = "LinAlgError"
                        /\ UNCHANGED <<x, x_star, ip_objective>>
                  [] res.kind = "NotApplicable" ->
                        /\ pcM' = "NotApplicableStop"
                        /\ UNCHANGED <<x, x_star, ip_objective>>
                  [] res.kind = "nan" ->
                        /\ x' = res.xs
                        /\ UNCHANGED <<pcM, x_star, ip_objective>>
                  [] res.kind = "Converged" ->
                        /\ x_star' = res.xs
                        /\ ip_objective' = Dot(C, res.xs)
                        /\ pcM' = "Converged"
                        /\ UNCHANGED x
                  [] res.kind = "continue" ->
                        /\ x' = res.xs
                        /\ UNCHANGED <<pcM, x_star, ip_objective>>
    /\ UNCHANGED <<C, A, b, x0, alpha, eps>>
    /\ UNCHANGED simplexVars

NextMethod == CheckApplicability \/ Pass

SpecMethod == InitMethod /\ [][NextMethod]_vars

----------------------------------------------------------------------------
(* Properties of simplex_method_manual. *)

\* the precondition b >= 0 componentwise
bNonneg == \A i \in 1..Len(b) : RLe(Zero, b[i])

IsExample == C = ExampleC /\ A = ExampleA /\ b = ExampleB

\* the variable (column) that is basic in row r: the column of the latest pivot
\* on that row, the row's own slack before any
BasisOf(r) == IF last_pivot[r] = 0 THEN num_vars + r ELSE last_pivot[r]

\* value of variable v (original or slack) in the basic solution of the tableau
BasicValue(v) ==
    IF \E r \in 1..num_constraints : BasisOf(r) = v
    THEN tableau[CHOOSE r \in 1..num_constraints : BasisOf(r) = v][LastCol]
    ELSE Zero

PrimalX == [j \in 1..num_vars |-> BasicValue(j)]
Slacks == [i \in 1..num_constraints |-> BasicValue(num_vars + i)]

\* e_r: 1 in row r, 0 in every other row of the tableau
UnitVector(r) == [i \in 1..(num_constraints + 1) |-> IF i = r THEN One ELSE Zero]
IsUnitColumn(col) == \E r \in 1..Len(col) : col = [i \in 1..Len(col) |-> IF i = r THEN One ELSE Zero]

\* xv is a feasible point of A xv <= b, xv >= 0
PrimalFeasible(xv) ==
    /\ \A j \in 1..num_vars : RLe(Zero, xv[j])
    /\ \A i \in 1..num_constraints : RLe(Dot(A[i], xv), b[i])

\* y is a feasible point of the dual: y >= 0, A^T y >= C
DualFeasible(y) ==
    /\ \A i \in 1..num_constraints : RLe(Zero, y[i])
    /\ \A j \in 1..num_vars :
          RLe(C[j], RSum([i \in 1..num_constraints |-> RMul(A[i][j], y[i])]))

\* the multipliers the final tableau offers: the objective row under the slack columns
DualY == [i \in 1..num_constraints |-> tableau[ObjRow][num_vars + i]]

\* v is the maximum of C.x over the feasible region: a feasible point attains v
\* and a dual feasible point bounds C.x by v on the whole region (weak duality)
IsTrueMaximum(v) ==
    /\ PrimalFeasible(PrimalX) /\ Dot(C, PrimalX) = v
    /\ DualFeasible(DualY) /\ Dot(b, DualY) = v

\* no feasible point with coordinates in 0..GridMax has a larger objective than v
NoGridPointBeats(v) ==
    \A g \in [1..num_vars -> 0..GridMax] :
        LET xv == [j \in 1..num_vars |-> RInt(g[j])]
        IN  PrimalFeasible(xv) => RLe(Dot(C, xv), v)

\* the ray along which the entering variable c is raised from the basic solution
RayD(c) ==
    [j \in 1..num_vars |->
        IF j = c THEN One
        ELSE IF \E r \in 1..num_constraints : BasisOf(r) = j
             THEN RNeg(tableau[CHOOSE r \in 1..num_constraints : BasisOf(r) = j][c])
             ELSE Zero]

\* the LP has no finite maximum: from a feasible point, a direction d >= 0 with
\* A d <= 0 and C.d > 0
TrulyUnbounded ==
    LET d == RayD(pivot_col(tableau))
    IN  /\ PrimalFeasible(PrimalX)
        /\ \A j \in 1..num_vars : RLe(Zero, d[j])
        /\ \A i \in 1..num_constraints : RLe(Dot(A[i], d), Zero)
        /\ RLt(Zero, Dot(C, d))

NoPositiveEntry(T, c) == \A i \in 1..num_constraints : ~RLt(Zero, T[i][c])

\* C2: a pass of the loop whose pivot column has no strictly positive entry in a
\* constraint row reports Unbounded, leaving the tableau unpivoted and no
\* solution or objective value; Unbounded is reported by such a pass only; and
\* nothing happens after it.
C2Theorem ==
    [][ /\ (pc = "loop" /\ ~IsOptimal(tableau)
              /\ NoPositiveEntry(tableau, pivot_col(tableau)))
           => /\ pc' = "unbounded"
              /\ tableau' = tableau /\ entered' = entered
              /\ solution' = None /\ objective_value' = None
        /\ (pc' = "unbounded" /\ pc # "unbounded")
           => /\ pc = "loop" /\ ~IsOptimal(tableau)
              /\ NoPositiveEntry(tableau, pivot_col(tableau))
        /\ pc = "unbounded" => UNCHANGED vars
      ]_vars

C2Witness ==
    /\ pc = "unbounded" /\ bNonneg /\ entered # {}
    /\ solution = None /\ objective_value = None

\* C3 (as claimed): an input with a negative entry in b is refused: the call
\* never gets past its start, performs no pivot and reports neither a solution
\* nor Unbounded.
C3Claim ==
    ~bNonneg => (pc \in {"start", "rejected"} /\ entered = {} /\ solution = None)

\* C7 (as claimed): in the reported solution, entry j is the right-hand side of
\* the row holding the 1 when column j is a unit vector over all rows, and 0
\* for every other column.
C7Claim ==
    (pc = "done" /\ bNonneg) =>
        \A j \in 1..num_vars :
            LET col == Column(tableau, j)
            IN  solution[j] = IF IsUnitColumn(col)
                              THEN tableau[FirstOne(col)][LastCol]
                              ELSE Zero

\* C8 (as claimed): every column selected as pivot column so far is a unit
\* vector in the current tableau.
C8Claim ==
    (tableau # <<>> /\ bNonneg) =>
        \A c \in entered : IsUnitColumn(Column(tableau, c))

\* C8 (amended): every column that is basic now -- for each row that has been
\* pivoted on, the column selected by the latest pivot on that row -- is the
\* unit vector of that row: 1 there, 0 in every other row, the objective row
\* included.
C8Theorem ==
    tableau # <<>> =>
        \A r \in 1..num_constraints :
            last_pivot[r] # 0 => Column(tableau, last_pivot[r]) = UnitVector(r)

\* a column that was selected, has left the basis since and is no unit vector
C8Witness ==
    /\ tableau # <<>> /\ bNonneg
    /\ \E c \in entered :
          /\ \A r \in 1..num_constraints : last_pivot[r] # c
          /\ ~IsUnitColumn(Column(tableau, c))
    /\ \E r \in 1..num_constraints : last_pivot[r] # 0

\* C9: after every pivot the basic solution of the tableau satisfies the
\* original constraints as equalities: A[i].x + slack_i = b[i] for every row i.
C9Theorem ==
    (tableau # <<>> /\ entered # {}) =>
        \A i \in 1..num_constraints : RAdd(Dot(A[i], PrimalX), Slacks[i]) = b[i]

C9Witness ==
    /\ pc = "loop" /\ npivots = 2
    /\ \E j \in 1..num_vars : PrimalX[j] # Zero
    /\ \E i \in 1..num_constraints : Slacks[i] # Zero

----------------------------------------------------------------------------
(* Properties of method. *)

\* every entry of the initial point is strictly positive
x0Positive == \A j \in 1..Len(x0) : RLt(Zero, x0[j])

\* C4 (as claimed): the solver terminates on every input that passes the
\* checks.  What a pass does is a function of the iterate x and the inputs (the
\* counter is read by a debug print only), so a loop that terminates never
\* ends a pass still running and on the iterate the pass started from.  Stated
\* for strictly positive initial points, which the solver is meant for.
C4Claim ==
    [][ (x0Positive /\ pcM = "iterate" /\ pcM' = "iterate") => x' # x ]_vars

\* C5 (as claimed): a pass that meets a singular A_tilda @ A_tilda.T ends the
\* call in the reported status NumericalFailure.
C5Claim ==
    [][ (pcM = "iterate" /\ ~IsNaN(x) /\ IsSingular(A_rev(x)))
            => pcM' = "NumericalFailure" ]_vars

\* the outcome the claim gives for the applicability check
ClaimedApplicability ==
    IF \E i \in 1..Len(A) : \A j \in 1..Len(A[i]) : RLe(A[i][j], Zero)
    THEN "NoSolution"
    ELSE IF \E i \in 1..Len(A) : RLt(b[i], Dot(A[i], x0))
         THEN "NotApplicable"
         ELSE "pass"

\* C6: once the check has run its outcome is NoSolution if some row of A has no
\* strictly positive entry, otherwise NotApplicable if some component of A.x0
\* exceeds b, otherwise pass; on NoSolution and NotApplicable no pass of the
\* loop has run; the two named instances end as named.
C6Theorem ==
    pcM # "start" =>
        /\ ClaimedApplicability = "NoSolution" =>
              (pcM = "NoSolution" /\ counter = 0 /\ x = <<>>)
        /\ ClaimedApplicability = "NotApplicable" =>
              (pcM = "NotApplicable" /\ counter = 0 /\ x = <<>>)
        /\ ClaimedApplicability = "pass" =>
              (pcM \notin {"NoSolution", "NotApplicable"} /\ x # <<>>)
        /\ A = << <<RInt(-1), RInt(-2)>> >> => pcM = "NoSolution"
        /\ (x0 = <<RInt(10), RInt(10)>> /\ A = << <<One, Zero>>, <<Zero, One>> >>
              /\ b = <<RInt(4), RInt(4)>>) => pcM = "NotApplicable"

C6Witness ==
    /\ pcM = "NotApplicable" /\ x0 = <<RInt(10), RInt(10)>>
    /\ A = << <<One, Zero>>, <<Zero, One>> >> /\ counter = 0

\* C10 (as claimed): at the start of every pass the iterate has every entry
\* strictly positive (the step sizes explored are 0.5 and 0.9, inside (0,1)).
C10Claim ==
    pcM = "iterate" => \A j \in 1..Len(x) : x[j] # NaN /\ RLt(Zero, x[j])

====
